---- MODULE Spec2Model ----
(***************************************************************************)
(* A model of cloth_sim (src/src/main.rs): the particle / spring store,    *)
(* the topology builder Cloth::new, the Verlet step Particle::update, the  *)
(* tear / correction iterations of Cloth::update, the cut pass and the     *)
(* drag controller of main's frame loop.                                   *)
(*                                                                         *)
(* Numbers.  The program computes in f32, and so does the model: an f32 is *)
(* kept as the record [m, e] of value m * 2^e, with m = 0 or               *)
(* 2^23 <= |m| < 2^24, and +, -, *, /, sqrt give the IEEE-754 binary32     *)
(* result, rounded to nearest with ties to even.  Every arithmetic         *)
(* expression of the source is evaluated operation by operation in the     *)
(* source's order.  Not modelled: NaN, the infinities, the sign of zero    *)
(* and subnormal numbers, none of which the program reaches from the       *)
(* values it is given here.                                                *)
(***************************************************************************)
EXTENDS Integers, Sequences, FiniteSets, TLC

\* ------------------------------------------------------------- bounds
\* Largest grid side the size sliders can reach (the program's is 64).
MaxSize == 5
\* Frames the loop is followed for.
MaxFrames == 2
\* Largest grid side the topology builder is tried with on its own.
MaxTopoSize == 6
\* The grid the program starts with, in cells (the program's is 40 x 25).
InitWidth == 4
InitHeight == 5

\* ---------------------------------------------------------------- f32
\* The least and the limit of a normal significand: 2^23 and 2^24.
SignificandMin == 2 ^ 23
SignificandLimit == 2 ^ 24

F32(m, e) == [m |-> m, e |-> e]
F32Zero == F32(0, 0)

Abs(a) == IF a < 0 THEN -a ELSE a

\* n * 2^e with 0 < n < 2^24, normalised.
RECURSIVE ScaleUp(_, _)
ScaleUp(n, e) == IF n >= SignificandMin THEN F32(n, e) ELSE ScaleUp(2 * n, e - 1)

\* The bits of n (n >= 2^24) beyond a significand's 24, searched from s.
RECURSIVE ExcessBits(_, _)
ExcessBits(n, s) == IF n \div 2 ^ s < SignificandLimit THEN s ELSE ExcessBits(n, s + 1)

\* The f32 nearest to a magnitude, ties to even.  The magnitude is n * 2^e
\* (n >= 0), or, when `sticky`, a value strictly between that and
\* (n + 1) * 2^e, in which case n has at least 26 bits.
RoundMagnitude(n, e, sticky) ==
    IF n = 0 THEN F32Zero
    ELSE IF n < SignificandLimit THEN ScaleUp(n, e)
    ELSE LET s == ExcessBits(n, 1)
             q == n \div 2 ^ s
             r == n % 2 ^ s
             half == 2 ^ (s - 1)
             up == r > half \/ (r = half /\ (sticky \/ q % 2 = 1))
         IN  IF ~up THEN F32(q, e + s)
             ELSE IF q + 1 = SignificandLimit THEN F32(SignificandMin, e + s + 1)
             ELSE F32(q + 1, e + s)

Negate(a) == F32(-a.m, a.e)
Signed(negative, a) == IF negative THEN Negate(a) ELSE a

\* f32::abs
F32Abs(a) == F32(Abs(a.m), a.e)

\* `n as f32` for an integer n, |n| < 2^31; also an integer-valued literal.
FromInt(n) == Signed(n < 0, RoundMagnitude(Abs(n), 0, FALSE))

\* a * b: the 48-bit product of the significands from their 12-bit halves,
\* as hi * 2^24 + lo, then rounded.
F32Mul(a, b) ==
    IF a.m = 0 \/ b.m = 0 THEN F32Zero
    ELSE LET x == Abs(a.m)
             y == Abs(b.m)
             x1 == x \div 4096
             x0 == x % 4096
             y1 == y \div 4096
             y0 == y % 4096
             mid == x1 * y0 + x0 * y1
             low == (mid % 4096) * 4096 + x0 * y0
             hi == x1 * y1 + mid \div 4096 + low \div SignificandLimit
             lo == low % SignificandLimit
         IN  Signed((a.m < 0) # (b.m < 0),
                    RoundMagnitude(hi * 64 + lo \div 262144, a.e + b.e + 18,
                                   lo % 262144 # 0))

\* <<q * 2^bits + floor(r * 2^bits / d), the remainder>> for r < d < 2^24,
\* seven bits a step.
RECURSIVE LongDivide(_, _, _, _)
LongDivide(q, r, d, bits) ==
    IF bits = 0 THEN <<q, r>>
    ELSE LET k == IF bits >= 7 THEN 7 ELSE bits
             n == r * 2 ^ k
         IN  LongDivide(q * 2 ^ k + n \div d, n % d, d, bits - k)

\* a / b for b # 0: the quotient of the significands to 27 binary places.
F32Div(a, b) ==
    IF a.m = 0 THEN F32Zero
    ELSE LET x == Abs(a.m)
             y == Abs(b.m)
             qr == LongDivide(x \div y, x % y, y, 27)
         IN  Signed((a.m < 0) # (b.m < 0),
                    RoundMagnitude(qr[1], a.e - b.e - 27, qr[2] # 0))

\* floor(sqrt(n)) by Newton's iteration from x >= sqrt(n).
RECURSIVE NewtonSqrt(_, _)
NewtonSqrt(n, x) ==
    LET y == (x + n \div x) \div 2
    IN  IF y >= x THEN x ELSE NewtonSqrt(n, y)

\* <<floor(sqrt(n * 4^pairs)), the remainder>> from those of n, a bit a step.
RECURSIVE RootBits(_, _, _)
RootBits(r, rem, pairs) ==
    IF pairs = 0 THEN <<r, rem>>
    ELSE LET rem4 == rem * 4
             trial == 4 * r + 1
         IN  IF rem4 >= trial THEN RootBits(2 * r + 1, rem4 - trial, pairs - 1)
             ELSE RootBits(2 * r, rem4, pairs - 1)

\* f32::sqrt of a >= 0: the root of the significand, its exponent made even,
\* to 14 binary places.
F32Sqrt(a) ==
    IF a.m = 0 THEN F32Zero
    ELSE LET odd == a.e % 2 # 0
             n == IF odd THEN 2 * a.m ELSE a.m
             e == IF odd THEN a.e - 1 ELSE a.e
             r0 == NewtonSqrt(n, 8192)
             rr == RootBits(r0, n - r0 * r0, 14)
         IN  RoundMagnitude(rr[1], e \div 2 - 14, rr[2] # 0)

\* a + b: the operand of smaller exponent is brought to the other's exponent
\* with three guard bits, what is shifted out kept as `sticky`.
F32Add(a, b) ==
    IF a.m = 0 THEN b
    ELSE IF b.m = 0 THEN a
    ELSE LET big == IF a.e >= b.e THEN a ELSE b
             small == IF a.e >= b.e THEN b ELSE a
             d == big.e - small.e
         IN  IF d >= 27 THEN big
             ELSE LET x == Abs(big.m) * 8
                      y == Abs(small.m)
                      yq == IF d <= 3 THEN y * 2 ^ (3 - d) ELSE y \div 2 ^ (d - 3)
                      sticky == d > 3 /\ y % 2 ^ (d - 3) # 0
                  IN  IF (big.m < 0) = (small.m < 0)
                        THEN Signed(big.m < 0, RoundMagnitude(x + yq, big.e - 3, sticky))
                      ELSE IF x = yq THEN F32Zero
                      ELSE IF x > yq
                        THEN Signed(big.m < 0,
                               RoundMagnitude(IF sticky THEN x - yq - 1 ELSE x - yq,
                                              big.e - 3, sticky))
                      ELSE Signed(small.m < 0, RoundMagnitude(yq - x, big.e - 3, FALSE))

F32Sub(a, b) == F32Add(a, Negate(b))

\* a < b
F32Less(a, b) ==
    IF a.m < 0 /\ b.m < 0 THEN (a.e > b.e \/ (a.e = b.e /\ a.m < b.m))
    ELSE IF a.m > 0 /\ b.m > 0 THEN (a.e < b.e \/ (a.e = b.e /\ a.m < b.m))
    ELSE a.m < b.m

\* f32::min
F32Min(a, b) == IF F32Less(b, a) THEN b ELSE a

\* The f32 a decimal literal n / d denotes: the nearest to it.
Decimal(n, d) == F32Div(FromInt(n), FromInt(d))

\* `v as usize`: toward zero, a negative value to 0.
AsUsize(v) ==
    IF v.m <= 0 THEN 0
    ELSE IF v.e >= 0 THEN v.m * 2 ^ v.e
    ELSE IF v.e <= -24 THEN 0
    ELSE v.m \div 2 ^ (-v.e)

\* ------------------------------------------------- program constants
\* The lower end of the Width and Height sliders, in cells.
MinSize == 4
\* f32::MAX, the start value of the closest-distance search.
F32_MAX == F32(SignificandLimit - 1, 104)
\* if closest_dist < 400.0
PickThreshold == FromInt(400)
\* get_frame_time().min(1.0 / 30.0)
MaxDt == F32Div(FromInt(1), FromInt(30))
\* the literals 0.0, 1.0, 2.0, 0.5, 0.1
Zero == F32Zero
One == FromInt(1)
Two == FromInt(2)
Half == Decimal(1, 2)
Tenth == Decimal(1, 10)

\* ---------------------------------------------------------------- Vec2
vec2(x, y) == [x |-> x, y |-> y]
ZERO == vec2(Zero, Zero)
Add(a, b) == vec2(F32Add(a.x, b.x), F32Add(a.y, b.y))
Sub(a, b) == vec2(F32Sub(a.x, b.x), F32Sub(a.y, b.y))
\* Vec2 * f32 and Vec2 / f32
Scaled(a, k) == vec2(F32Mul(a.x, k), F32Mul(a.y, k))
Divided(a, k) == vec2(F32Div(a.x, k), F32Div(a.y, k))
\* (a.x * b.x) + (a.y * b.y)
Dot(a, b) ==
    LET xx == F32Mul(a.x, b.x)
        yy == F32Mul(a.y, b.y)
    IN  F32Add(xx, yy)
length_squared(a) == Dot(a, a)
length(a) == LET sq == length_squared(a) IN F32Sqrt(sq)
\* a.distance(b) is (a - b).length()
distance(a, b) == LET d == Sub(a, b) IN length(d)

\* Option<usize>
None == <<>>
Some(i) == <<i>>

\* --------------------------------------------------------------- state
VARIABLES
    cloth_spacing,          \* let cloth_spacing: f32
    cloth_start_pos,        \* let cloth_start_pos: Vec2
    cloth,                  \* let mut cloth: particles, springs, width, height
    cloth_width,            \* f32, the Width slider's value
    cloth_height,           \* f32, the Height slider's value
    last_width,
    last_height,
    selected_particle_idx,  \* Option<usize>
    stiffness,              \* f32
    tear_threshold,         \* f32
    gravity_y,              \* f32
    iterations,             \* f32
    cut_radius,             \* f32
    dt,                     \* f32, seconds
    mouse_pos,              \* Vec2
    lmb_pressed, lmb_down, lmb_released, rmb_down,
    pc,                     \* the statement of the frame loop to run next
    iter,                   \* the counter of `for _ in 0..iterations`
    frame,                  \* frames begun
    frame_ops               \* the store mutations of this frame, in order

vars == <<cloth_spacing, cloth_start_pos, cloth, cloth_width, cloth_height, last_width, last_height,
          selected_particle_idx, stiffness, tear_threshold, gravity_y,
          iterations, cut_radius, dt, mouse_pos, lmb_pressed, lmb_down,
          lmb_released, rmb_down, pc, iter, frame, frame_ops>>

fixed == <<cloth_spacing, cloth_start_pos>>
config == <<cloth_width, cloth_height, stiffness, tear_threshold, gravity_y,
            iterations, cut_radius>>
inputs == <<dt, mouse_pos, lmb_pressed, lmb_down, lmb_released, rmb_down>>

\* ------------------------------------------------------------ Particle
ParticleNew(x, y) ==
    [pos |-> vec2(x, y), old_pos |-> vec2(x, y), acceleration |-> ZERO,
     mass |-> One, is_pinned |-> FALSE]

\* Particle::update with the early return for a pinned particle left out.
ParticleUpdateNoPinCheck(p, delta_t) ==
    LET velocity == Sub(p.pos, p.old_pos)
        per_dt == Scaled(p.acceleration, delta_t)
        per_dt_dt == Scaled(per_dt, delta_t)
        step == Add(velocity, per_dt_dt)
    IN  [p EXCEPT !.old_pos = p.pos,
                  !.pos = Add(p.pos, step),
                  !.acceleration = ZERO]

ParticleUpdate(p, delta_t) ==
    IF p.is_pinned THEN p ELSE ParticleUpdateNoPinCheck(p, delta_t)

apply_force(p, force) ==
    LET a == Divided(force, p.mass)
    IN  [p EXCEPT !.acceleration = Add(p.acceleration, a)]

\* --------------------------------------------------------------- Cloth
Spring(p1, p2, rest) == [p1_idx |-> p1, p2_idx |-> p2, rest_length |-> rest]

\* The particle pushed for cell (x, y) by the first loop of Cloth::new.
NewParticle(x, y, spacing, start_x, start_y) ==
    LET right == F32Mul(FromInt(x), spacing)
        down == F32Mul(FromInt(y), spacing)
    IN  [ParticleNew(F32Add(start_x, right), F32Add(start_y, down))
            EXCEPT !.is_pinned = (y = 0)]

\* (spacing.powi(2) + spacing.powi(2)).sqrt()
DiagonalLen(spacing) ==
    LET sq == F32Mul(spacing, spacing)
        sum == F32Add(sq, sq)
    IN  F32Sqrt(sum)

\* The springs pushed for cell (x, y) by the second loop of Cloth::new, in
\* order, with the anti-diagonal of the shear pair missing.
CellSpringsOneShear(x, y, width, height, spacing) ==
    LET current_idx == y * width + x
        diagonal_len == DiagonalLen(spacing)
    IN  (IF x < width - 1
           THEN <<Spring(current_idx, current_idx + 1, spacing)>>
                \o (IF x < width - 2
                      THEN <<Spring(current_idx, current_idx + 2, F32Mul(spacing, Two))>>
                      ELSE <<>>)
           ELSE <<>>)
        \o
        (IF y < height - 1
           THEN <<Spring(current_idx, current_idx + width, spacing)>>
                \o (IF y < height - 2
                      THEN <<Spring(current_idx, current_idx + 2 * width,
                                    F32Mul(spacing, Two))>>
                      ELSE <<>>)
           ELSE <<>>)
        \o
        (IF x < width - 1 /\ y < height - 1
           THEN <<Spring(current_idx, current_idx + width + 1, diagonal_len)>>
           ELSE <<>>)

\* The springs pushed for cell (x, y) by the second loop of Cloth::new, in order.
CellSprings(x, y, width, height, spacing) ==
    LET current_idx == y * width + x
        diagonal_len == DiagonalLen(spacing)
    IN  (IF x < width - 1
           THEN <<Spring(current_idx, current_idx + 1, spacing)>>
                \o (IF x < width - 2
                      THEN <<Spring(current_idx, current_idx + 2, F32Mul(spacing, Two))>>
                      ELSE <<>>)
           ELSE <<>>)
        \o
        (IF y < height - 1
           THEN <<Spring(current_idx, current_idx + width, spacing)>>
                \o (IF y < height - 2
                      THEN <<Spring(current_idx, current_idx + 2 * width,
                                    F32Mul(spacing, Two))>>
                      ELSE <<>>)
           ELSE <<>>)
        \o
        (IF x < width - 1 /\ y < height - 1
           THEN <<Spring(current_idx, current_idx + width + 1, diagonal_len),
                  Spring(y * width + (x + 1), (y + 1) * width + x, diagonal_len)>>
           ELSE <<>>)

\* The springs of cells idx, idx + 1, ... in row-major order.
RECURSIVE SpringsFrom(_, _, _, _)
SpringsFrom(idx, width, height, spacing) ==
    IF idx >= width * height THEN <<>>
    ELSE CellSprings(idx % width, idx \div width, width, height, spacing)
         \o SpringsFrom(idx + 1, width, height, spacing)

\* Cloth::new, for width >= 2 and height >= 2 (below that the usize
\* subtraction `width - 2` underflows).
ClothNew(width, height, spacing, start_x, start_y) ==
    [particles |-> [i \in 0 .. (width * height - 1) |->
                      NewParticle(i % width, i \div width, spacing, start_x, start_y)],
     springs   |-> SpringsFrom(0, width, height, spacing),
     width     |-> width,
     height    |-> height]

NumParticles(c) == Cardinality(DOMAIN c.particles)

\* ------------------------------------------------- Cloth::update parts
\* The retain predicate of the tear pass, with the boundary kept (<=).
TearRetainKeepBoundary(s, particles, threshold) ==
    LET dist == distance(particles[s.p1_idx].pos, particles[s.p2_idx].pos)
        limit == F32Mul(s.rest_length, threshold)
    IN  ~F32Less(limit, dist)

\* The retain predicate of the tear pass: dist < s.rest_length * tear_threshold.
TearRetain(s, particles, threshold) ==
    LET dist == distance(particles[s.p1_idx].pos, particles[s.p2_idx].pos)
        limit == F32Mul(s.rest_length, threshold)
    IN  F32Less(dist, limit)

\* A tear pass that filters the springs the cloth was built with, not the live list.
TearPassOfBuiltList(c, threshold) ==
    SelectSeq(SpringsFrom(0, c.width, c.height, cloth_spacing),
              LAMBDA s : TearRetain(s, c.particles, threshold))

\* self.springs.retain(...) of one relaxation iteration.
TearPass(c, threshold) ==
    SelectSeq(c.springs, LAMBDA s : TearRetain(s, c.particles, threshold))

\* The body of the correction loop for one spring.
CorrectSpring(particles, spring, stiff) ==
    LET p1 == particles[spring.p1_idx]
        p2 == particles[spring.p2_idx]
        delta == Sub(p2.pos, p1.pos)
        dist == length(delta)
    IN  IF dist = Zero THEN particles
        ELSE LET stretch == F32Sub(dist, spring.rest_length)
                 diff == F32Div(stretch, dist)
                 halved == Scaled(delta, Half)
                 by_diff == Scaled(halved, diff)
                 correction == Scaled(by_diff, stiff)
                 after1 == IF p1.is_pinned THEN particles
                           ELSE [particles EXCEPT ![spring.p1_idx].pos =
                                     Add(p1.pos, correction)]
             IN  IF p2.is_pinned THEN after1
                 ELSE [after1 EXCEPT ![spring.p2_idx].pos =
                           Sub(after1[spring.p2_idx].pos, correction)]

\* for spring in &self.springs { ... } over springs[lo .. hi], in list order:
\* each spring is applied to the positions the previous one left.  (The range
\* is halved, and the first half's result examined before the second half
\* starts, only so that the evaluator computes it step by step.)
RECURSIVE CorrectionRange(_, _, _, _, _)
CorrectionRange(particles, springs, lo, hi, stiff) ==
    IF lo > hi THEN particles
    ELSE IF lo = hi THEN CorrectSpring(particles, springs[lo], stiff)
    ELSE LET mid == (lo + hi) \div 2
             first == CorrectionRange(particles, springs, lo, mid, stiff)
         IN  IF DOMAIN first = {} THEN first
             ELSE CorrectionRange(first, springs, mid + 1, hi, stiff)

CorrectionPass(particles, springs, stiff) ==
    CorrectionRange(particles, springs, 1, Len(springs), stiff)

\* ------------------------------------------- distance_point_to_segment
\* f32::clamp(0.0, 1.0)
Clamp01(t) == IF F32Less(t, Zero) THEN Zero ELSE IF F32Less(One, t) THEN One ELSE t

distance_point_to_segment(p, a, b) ==
    LET ab == Sub(b, a)
        ap == Sub(p, a)
        len_sq == length_squared(ab)
    IN  IF len_sq = Zero THEN distance(p, a)
        ELSE LET dot == Dot(ap, ab)
                 ratio == F32Div(dot, len_sq)
                 t == Clamp01(ratio)
                 along == Scaled(ab, t)
                 closest_point == Add(a, along)
             IN  distance(p, closest_point)

\* The retain predicate of the cut pass measuring to the first endpoint only.
CutRetainEndpointOnly(spring, particles, mouse, radius) ==
    LET dist_to_spring == distance(mouse, particles[spring.p1_idx].pos)
    IN  F32Less(radius, dist_to_spring)

\* The retain predicate of the cut pass: dist_to_spring > cut_radius.
CutRetain(spring, particles, mouse, radius) ==
    LET dist_to_spring == distance_point_to_segment(mouse, particles[spring.p1_idx].pos,
                                                    particles[spring.p2_idx].pos)
    IN  F32Less(radius, dist_to_spring)

\* ------------------------------------------------------------ picking
\* The closest-particle loop from index i on: <<closest_dist, closest_idx>>.
RECURSIVE ClosestFrom(_, _, _, _, _)
ClosestFrom(particles, mouse, i, closest_dist, closest_idx) ==
    IF i \notin DOMAIN particles THEN <<closest_dist, closest_idx>>
    ELSE LET to_mouse == Sub(particles[i].pos, mouse)
             dist_sq == length_squared(to_mouse)
         IN  IF F32Less(dist_sq, closest_dist)
               THEN ClosestFrom(particles, mouse, i + 1, dist_sq, i)
               ELSE ClosestFrom(particles, mouse, i + 1, closest_dist, closest_idx)

Closest(particles, mouse) == ClosestFrom(particles, mouse, 0, F32_MAX, 0)

\* -------------------------------------------------------- environment
\* A point given in whole pixels.
Px(x, y) == vec2(FromInt(x), FromInt(y))

\* The configuration window: widgets::Window::new(hash!(), vec2(10., 40.),
\* vec2(280., 260.)); root_ui().is_mouse_over(p) is p inside it.
WindowPos == Px(10, 40)
WindowSize == Px(280, 260)
is_mouse_over(p) ==
    LET far == Add(WindowPos, WindowSize)
    IN  /\ ~F32Less(p.x, WindowPos.x) /\ ~F32Less(far.x, p.x)
        /\ ~F32Less(p.y, WindowPos.y) /\ ~F32Less(far.y, p.y)

\* What the left button can report in one frame, given whether it was down
\* at the end of the previous one: <<pressed, down, released>>.
ButtonReports(was_down) ==
    IF was_down
      THEN { <<FALSE, TRUE, FALSE>>, <<FALSE, FALSE, TRUE>>,
             <<TRUE, TRUE, TRUE>>, <<TRUE, FALSE, TRUE>> }
      ELSE { <<FALSE, FALSE, FALSE>>, <<TRUE, TRUE, FALSE>>,
             <<TRUE, FALSE, TRUE>>, <<TRUE, TRUE, TRUE>> }

\* What a frame reads from the pointer and the clock: mouse_position(), the
\* left button's <<pressed, down, released>>, the right button's down, and
\* get_frame_time() = 1 / rate seconds.
Pointer(x, y, lmb, rmb, rate) ==
    [pos |-> Px(x, y), lmb |-> lmb, rmb |-> rmb, frame_time |-> Decimal(1, rate)]

\* The readings tried.  The cursor is over the window at (285, 50), on
\* particles 0 and 1 at (300, 50) and (315, 50), inside the cloth at
\* (322, 73), and 15 px under the bottom row at (330, 125); the left button
\* idle, pressed and held, clicked, held from the frame before, released;
\* the right button up or down; the frame time under and over the clamp.
PointerSamples ==
    { Pointer(285, 50, <<FALSE, FALSE, FALSE>>, FALSE, 60),
      Pointer(322, 73, <<FALSE, FALSE, FALSE>>, FALSE, 60),
      Pointer(300, 50, <<TRUE, TRUE, FALSE>>, FALSE, 60),
      Pointer(322, 73, <<TRUE, TRUE, FALSE>>, FALSE, 60),
      Pointer(322, 73, <<TRUE, TRUE, FALSE>>, TRUE, 20),
      Pointer(330, 125, <<TRUE, TRUE, FALSE>>, FALSE, 20),
      Pointer(315, 50, <<TRUE, FALSE, TRUE>>, FALSE, 60),
      Pointer(315, 50, <<FALSE, FALSE, FALSE>>, TRUE, 60),
      Pointer(285, 50, <<FALSE, TRUE, FALSE>>, FALSE, 60),
      Pointer(315, 50, <<FALSE, TRUE, FALSE>>, FALSE, 60),
      Pointer(330, 125, <<FALSE, TRUE, FALSE>>, TRUE, 60),
      Pointer(322, 73, <<FALSE, FALSE, TRUE>>, FALSE, 20) }

\* Slider positions tried, inside each slider's range.
SizeChoices(hundredths) ==
    {Decimal(v, 100) : v \in {h \in hundredths : MinSize * 100 <= h /\ h <= MaxSize * 100}}
WidthChoices == SizeChoices({400, 410, 420, 430, 500})
HeightChoices == SizeChoices({400, 495, 500})
IterationChoices == {Decimal(5, 2), FromInt(5)}
GravityChoices == {Zero, FromInt(980)}
StiffnessChoices == {Decimal(9, 10), One}
TearThresholdChoices == {Two, Decimal(45, 10)}
CutRadiusChoices == {FromInt(10), FromInt(50)}

\* Cloth::new(cloth_width as usize, cloth_height as usize, cloth_spacing,
\*            cloth_start_pos.x, cloth_start_pos.y)
Rebuild(w, h) ==
    ClothNew(AsUsize(w), AsUsize(h), cloth_spacing, cloth_start_pos.x, cloth_start_pos.y)

\* The statements of the loop body in the order cut, drag moved behind the
\* relaxation iterations.
SuccessorCutDragLast(stage) ==
    CASE stage = "begin"     -> "ui"
      [] stage = "ui"        -> "resize"
      [] stage = "resize"    -> "press"
      [] stage = "press"     -> "release"
      [] stage = "release"   -> "force"
      [] stage = "force"     -> "integrate"
      [] stage = "integrate" -> "tear"
      [] stage = "tear"      -> "correct"
      [] stage = "correct"   -> "cut"
      [] stage = "cut"       -> "drag"
      [] stage = "drag"      -> "draw"
      [] stage = "draw"      -> "begin"

\* The statements of the loop body of main, and of Cloth::update inside it,
\* in program order.
Successor(stage) ==
    CASE stage = "begin"     -> "ui"
      [] stage = "ui"        -> "resize"
      [] stage = "resize"    -> "press"
      [] stage = "press"     -> "drag"
      [] stage = "drag"      -> "release"
      [] stage = "release"   -> "cut"
      [] stage = "cut"       -> "force"
      [] stage = "force"     -> "integrate"
      [] stage = "integrate" -> "tear"
      [] stage = "tear"      -> "correct"
      [] stage = "correct"   -> "draw"
      [] stage = "draw"      -> "begin"

\* The locals of main after the statements before `loop`, about to run `stage`.
InitAt(stage) ==
    /\ cloth_spacing = FromInt(15)
    /\ cloth_start_pos = Px(300, 50)
    /\ cloth_width = FromInt(InitWidth)
    /\ cloth_height = FromInt(InitHeight)
    /\ last_width = cloth_width
    /\ last_height = cloth_height
    /\ cloth = Rebuild(cloth_width, cloth_height)
    /\ selected_particle_idx = None
    /\ stiffness = Decimal(9, 10)
    /\ tear_threshold = Decimal(45, 10)
    /\ gravity_y = FromInt(980)
    /\ iterations = FromInt(5)
    /\ cut_radius = FromInt(10)
    /\ dt = Zero
    /\ mouse_pos = ZERO
    /\ lmb_pressed = FALSE /\ lmb_down = FALSE /\ lmb_released = FALSE
    /\ rmb_down = FALSE
    /\ pc = stage
    /\ iter = 0
    /\ frame = 0
    /\ frame_ops = <<>>

Init == InitAt("begin")

\* loop { clear_background; let dt = get_frame_time().min(1.0 / 30.0); and the
\* pointer state every later statement of the frame reads.
BeginFrame ==
    /\ pc = "begin"
    /\ frame < MaxFrames
    /\ \E s \in PointerSamples :
          /\ s.lmb \in ButtonReports(lmb_down)
          /\ dt' = F32Min(s.frame_time, MaxDt)
          /\ mouse_pos' = s.pos
          /\ lmb_pressed' = s.lmb[1] /\ lmb_down' = s.lmb[2] /\ lmb_released' = s.lmb[3]
          /\ rmb_down' = s.rmb
    /\ frame' = frame + 1
    /\ frame_ops' = <<>>
    /\ pc' = Successor(pc)
    /\ UNCHANGED <<fixed, cloth, config, last_width, last_height,
                   selected_particle_idx, iter>>

\* A rebuild that leaves the selection as it was.
AfterRebuildKeep(selected) == selected

\* selected_particle_idx = None; after each cloth = Cloth::new(...) of the loop.
AfterRebuild(selected) == None

\* One widget of the window operated: a slider moved, or Reset Cloth clicked.
UiWidget ==
    \/ /\ cloth_width' \in WidthChoices \ {cloth_width}
       /\ UNCHANGED <<cloth_height, stiffness, tear_threshold, gravity_y,
                      iterations, cut_radius, cloth, selected_particle_idx,
                      frame_ops>>
    \/ /\ cloth_height' \in HeightChoices \ {cloth_height}
       /\ UNCHANGED <<cloth_width, stiffness, tear_threshold, gravity_y,
                      iterations, cut_radius, cloth, selected_particle_idx,
                      frame_ops>>
    \/ /\ cut_radius' \in CutRadiusChoices \ {cut_radius}
       /\ UNCHANGED <<cloth_width, cloth_height, stiffness, tear_threshold,
                      gravity_y, iterations, cloth, selected_particle_idx,
                      frame_ops>>
    \/ /\ gravity_y' \in GravityChoices \ {gravity_y}
       /\ UNCHANGED <<cloth_width, cloth_height, stiffness, tear_threshold,
                      iterations, cut_radius, cloth, selected_particle_idx,
                      frame_ops>>
    \/ /\ stiffness' \in StiffnessChoices \ {stiffness}
       /\ UNCHANGED <<cloth_width, cloth_height, tear_threshold, gravity_y,
                      iterations, cut_radius, cloth, selected_particle_idx,
                      frame_ops>>
    \/ /\ tear_threshold' \in TearThresholdChoices \ {tear_threshold}
       /\ UNCHANGED <<cloth_width, cloth_height, stiffness, gravity_y,
                      iterations, cut_radius, cloth, selected_particle_idx,
                      frame_ops>>
    \/ /\ iterations' \in IterationChoices \ {iterations}
       /\ UNCHANGED <<cloth_width, cloth_height, stiffness, tear_threshold,
                      gravity_y, cut_radius, cloth, selected_particle_idx,
                      frame_ops>>
    \/ \* if ui.button(None, "Reset Cloth")
       /\ cloth' = Rebuild(cloth_width, cloth_height)
       /\ selected_particle_idx' = AfterRebuild(selected_particle_idx)
       /\ frame_ops' = Append(frame_ops, "rebuild")
       /\ UNCHANGED config

\* The configuration window: at most one widget is operated in a frame, and
\* only with the cursor over the window.
UiPanel ==
    /\ pc = "ui"
    /\ pc' = Successor(pc)
    /\ UNCHANGED <<fixed, inputs, last_width, last_height, iter, frame>>
    /\ \/ UNCHANGED <<config, cloth, selected_particle_idx, frame_ops>>
       \/ /\ is_mouse_over(mouse_pos)
          /\ UiWidget

\* (a - b).abs() > 0.1
DiffersByTenth(a, b) ==
    LET d == F32Sub(a, b)
    IN  F32Less(Tenth, F32Abs(d))

\* if (last_width - cloth_width).abs() > 0.1 || (last_height - cloth_height).abs() > 0.1
SizeChanged ==
    \/ DiffersByTenth(last_width, cloth_width)
    \/ DiffersByTenth(last_height, cloth_height)

ResizeCheck ==
    /\ pc = "resize"
    /\ pc' = Successor(pc)
    /\ UNCHANGED <<fixed, config, inputs, iter, frame>>
    /\ \/ /\ SizeChanged
          /\ cloth' = Rebuild(cloth_width, cloth_height)
          /\ selected_particle_idx' = AfterRebuild(selected_particle_idx)
          /\ last_width' = cloth_width
          /\ last_height' = cloth_height
          /\ frame_ops' = Append(frame_ops, "rebuild")
       \/ /\ ~SizeChanged
          /\ UNCHANGED <<cloth, selected_particle_idx, last_width, last_height,
                         frame_ops>>

\* The selection after the press block, with the pick threshold left out.
PressSelectNoThreshold(particles, mouse, pressed, selected) ==
    IF pressed /\ ~is_mouse_over(mouse)
      THEN Some(Closest(particles, mouse)[2])
      ELSE selected

\* The selection after `if is_mouse_button_pressed(MouseButton::Left) { ... }`.
PressSelect(particles, mouse, pressed, selected) ==
    IF pressed /\ ~is_mouse_over(mouse)
      THEN LET c == Closest(particles, mouse)
           IN  IF F32Less(c[1], PickThreshold) THEN Some(c[2]) ELSE selected
      ELSE selected

MousePress ==
    /\ pc = "press"
    /\ pc' = Successor(pc)
    /\ selected_particle_idx' =
          PressSelect(cloth.particles, mouse_pos, lmb_pressed, selected_particle_idx)
    /\ UNCHANGED <<fixed, cloth, config, inputs, last_width, last_height, iter, frame,
                   frame_ops>>

\* if is_mouse_button_down(MouseButton::Left) { if let Some(idx) = ... }
MouseDrag ==
    /\ pc = "drag"
    /\ pc' = Successor(pc)
    /\ UNCHANGED <<fixed, config, inputs, last_width, last_height, iter, frame>>
    /\ \/ /\ lmb_down /\ selected_particle_idx # None
          /\ selected_particle_idx[1] < NumParticles(cloth)
          /\ LET idx == selected_particle_idx[1]
                 original_pos == cloth.particles[idx].pos
             IN  cloth' = [cloth EXCEPT !.particles[idx].pos = mouse_pos,
                                        !.particles[idx].old_pos = original_pos]
          /\ frame_ops' = Append(frame_ops, "drag")
          /\ UNCHANGED selected_particle_idx
       \/ /\ lmb_down /\ selected_particle_idx # None
          /\ ~(selected_particle_idx[1] < NumParticles(cloth))
          /\ selected_particle_idx' = None
          /\ UNCHANGED <<cloth, frame_ops>>
       \/ /\ ~(lmb_down /\ selected_particle_idx # None)
          /\ UNCHANGED <<cloth, selected_particle_idx, frame_ops>>

\* if is_mouse_button_released(MouseButton::Left) { selected_particle_idx = None; }
MouseRelease ==
    /\ pc = "release"
    /\ pc' = Successor(pc)
    /\ selected_particle_idx' = IF lmb_released THEN None ELSE selected_particle_idx
    /\ UNCHANGED <<fixed, cloth, config, inputs, last_width, last_height, iter, frame,
                   frame_ops>>

\* if is_mouse_button_down(MouseButton::Right) { cloth.springs.retain(...) }
CutPass ==
    /\ pc = "cut"
    /\ pc' = Successor(pc)
    /\ UNCHANGED <<fixed, config, inputs, last_width, last_height, selected_particle_idx,
                   iter, frame>>
    /\ \/ /\ rmb_down
          /\ cloth' = [cloth EXCEPT !.springs =
                SelectSeq(cloth.springs,
                          LAMBDA s : CutRetain(s, cloth.particles, mouse_pos, cut_radius))]
          /\ frame_ops' = Append(frame_ops, "cut")
       \/ /\ ~rmb_down
          /\ UNCHANGED <<cloth, frame_ops>>

\* Cloth::update: for p in self.particles.iter_mut() { p.apply_force(gravity); }
\* with gravity = vec2(0.0, gravity_y)
ApplyForces ==
    /\ pc = "force"
    /\ pc' = Successor(pc)
    /\ cloth' = [cloth EXCEPT !.particles =
          [i \in DOMAIN cloth.particles |->
              apply_force(cloth.particles[i], vec2(Zero, gravity_y))]]
    /\ frame_ops' = Append(frame_ops, "force")
    /\ UNCHANGED <<fixed, config, inputs, last_width, last_height, selected_particle_idx,
                   iter, frame>>

\* Cloth::update: for p in self.particles.iter_mut() { p.update(dt); }
\* and the entry of `for _ in 0..iterations`.
Integrate ==
    /\ pc = "integrate"
    /\ cloth' = [cloth EXCEPT !.particles =
          [i \in DOMAIN cloth.particles |-> ParticleUpdate(cloth.particles[i], dt)]]
    /\ frame_ops' = Append(frame_ops, "integrate")
    /\ iter' = 0
    /\ pc' = IF 0 < AsUsize(iterations) THEN "tear" ELSE "draw"
    /\ UNCHANGED <<fixed, config, inputs, last_width, last_height, selected_particle_idx,
                   frame>>

\* One iteration's self.springs.retain(...).
Tear ==
    /\ pc = "tear"
    /\ pc' = Successor(pc)
    /\ cloth' = [cloth EXCEPT !.springs = TearPass(cloth, tear_threshold)]
    /\ frame_ops' = Append(frame_ops, "tear")
    /\ UNCHANGED <<fixed, config, inputs, last_width, last_height, selected_particle_idx,
                   iter, frame>>

\* One iteration's correction loop, and the loop's next turn or exit.
Correct ==
    /\ pc = "correct"
    /\ cloth' = [cloth EXCEPT !.particles =
          CorrectionPass(cloth.particles, cloth.springs, stiffness)]
    /\ frame_ops' = Append(frame_ops, "correct")
    /\ iter' = iter + 1
    /\ pc' = IF iter + 1 < AsUsize(iterations) THEN "tear" ELSE Successor(pc)
    /\ UNCHANGED <<fixed, config, inputs, last_width, last_height, selected_particle_idx,
                   frame>>

\* cloth.draw(); draw_text(...); next_frame().await
Draw ==
    /\ pc = "draw"
    /\ pc' = Successor(pc)
    /\ frame_ops' = Append(frame_ops, "draw")
    /\ UNCHANGED <<fixed, cloth, config, inputs, last_width, last_height,
                   selected_particle_idx, iter, frame>>

Next ==
    \/ BeginFrame
    \/ UiPanel
    \/ ResizeCheck
    \/ MousePress
    \/ MouseDrag
    \/ MouseRelease
    \/ CutPass
    \/ ApplyForces
    \/ Integrate
    \/ Tear
    \/ Correct
    \/ Draw

Spec == Init /\ [][Next]_vars


\* ------------------------------------------- the topology builder alone
\* Cloth::new applied to grid sizes from 2 x 2 up, with several spacings and
\* origins (whole pixels).
TopoSizes == 2 .. MaxTopoSize
TopoSpacings == {1, 10, 15}
TopoOrigins == {<<0, 0>>, <<300, 50>>}

InitTopo == InitAt("topo")

TopoBuild ==
    /\ pc = "topo"
    /\ \E w \in TopoSizes, h \in TopoSizes, sp \in TopoSpacings, o \in TopoOrigins :
          /\ cloth_spacing' = FromInt(sp)
          /\ cloth_start_pos' = Px(o[1], o[2])
          /\ cloth_width' = FromInt(w)
          /\ cloth_height' = FromInt(h)
          /\ last_width' = FromInt(w)
          /\ last_height' = FromInt(h)
          /\ cloth' = ClothNew(w, h, FromInt(sp), FromInt(o[1]), FromInt(o[2]))
    /\ UNCHANGED <<selected_particle_idx, stiffness, tear_threshold, gravity_y,
                   iterations, cut_radius, inputs, pc, iter, frame, frame_ops>>

NextTopo == TopoBuild

SpecTopo == InitTopo /\ [][NextTopo]_vars

\* ---------------------------------------------------------------------
\* Properties
\* ---------------------------------------------------------------------
Range(seq) == {seq[k] : k \in 1 .. Len(seq)}

\* The springs Cloth::new gave the live cloth.
BuiltSprings == SpringsFrom(0, cloth.width, cloth.height, cloth_spacing)

\* A step of the loop that replaces the whole cloth (Reset Cloth, or the size check).
ClothReplaced ==
    /\ pc \in {"ui", "resize"}
    /\ Len(frame_ops') = Len(frame_ops) + 1

\* The length of a spring of the live cloth, as the tear pass measures it,
\* and whether it is under the tear distance.
SpringLength(s) == distance(cloth.particles[s.p1_idx].pos, cloth.particles[s.p2_idx].pos)

UnderTearDistance(s) ==
    LET dist == SpringLength(s)
        limit == F32Mul(s.rest_length, tear_threshold)
    IN  F32Less(dist, limit)

\* A step moves a particle that is pinned.
PinnedMoved ==
    \E i \in DOMAIN cloth.particles \cap DOMAIN cloth'.particles :
        /\ cloth.particles[i].is_pinned
        /\ cloth'.particles[i].pos # cloth.particles[i].pos

\* C1 -- Pin invariant: no step of the loop other than the drag assignment
\* (or the replacement of the whole cloth) changes the position of a pinned
\* particle; in particular force application, integration, the tear pass and
\* the correction pass leave every pinned particle where it was.
C1_PinInvariant == [][PinnedMoved => (pc = "drag" \/ ClothReplaced)]_vars

\* A frame's relaxation is over, gravity has moved an unpinned particle that a
\* live spring ties to a pinned one, and the pinned one is where it was built.
C1_Witness ==
    /\ pc = "draw"
    /\ F32Less(Zero, gravity_y)
    /\ \E s \in Range(cloth.springs) :
          /\ cloth.particles[s.p1_idx].is_pinned
          /\ ~cloth.particles[s.p2_idx].is_pinned
          /\ cloth.particles[s.p1_idx].pos
                = Px(AsUsize(cloth_start_pos.x) + s.p1_idx * AsUsize(cloth_spacing),
                     AsUsize(cloth_start_pos.y))
          /\ cloth.particles[s.p2_idx].pos # cloth.particles[s.p2_idx].old_pos
          /\ SpringLength(s) # s.rest_length

\* The kinds of spring, by the grid cells of their ends.
Col(i) == i % cloth.width
Row(i) == i \div cloth.width
CountSprings(Kind(_)) == Cardinality({k \in 1 .. Len(cloth.springs) : Kind(cloth.springs[k])})
IsHStruct(s) == Row(s.p1_idx) = Row(s.p2_idx) /\ Col(s.p2_idx) = Col(s.p1_idx) + 1
IsHBend(s) == Row(s.p1_idx) = Row(s.p2_idx) /\ Col(s.p2_idx) = Col(s.p1_idx) + 2
IsVStruct(s) == Col(s.p1_idx) = Col(s.p2_idx) /\ Row(s.p2_idx) = Row(s.p1_idx) + 1
IsVBend(s) == Col(s.p1_idx) = Col(s.p2_idx) /\ Row(s.p2_idx) = Row(s.p1_idx) + 2
IsShear(s) == Abs(Col(s.p2_idx) - Col(s.p1_idx)) = 1 /\ Row(s.p2_idx) = Row(s.p1_idx) + 1

\* C2 -- Topology: Cloth::new(width, height, ...) with width, height >= 2 gives
\* width * height particles in row-major order, exactly row 0 pinned, and
\* exactly (w-1)h horizontal structural, (w-2)h horizontal bending, w(h-1)
\* vertical structural, w(h-2) vertical bending and 2(w-1)(h-1) shear springs,
\* each between two distinct particles of the store, no pair tied twice.
C2_Topology ==
    pc = "topo" =>
      LET w == cloth.width
          h == cloth.height
          n == Len(cloth.springs)
      IN  /\ w = AsUsize(cloth_width) /\ h = AsUsize(cloth_height)
          /\ DOMAIN cloth.particles = 0 .. (w * h - 1)
          /\ \A i \in DOMAIN cloth.particles :
                /\ cloth.particles[i].pos
                     = Px(AsUsize(cloth_start_pos.x) + Col(i) * AsUsize(cloth_spacing),
                          AsUsize(cloth_start_pos.y) + Row(i) * AsUsize(cloth_spacing))
                /\ cloth.particles[i].is_pinned = (Row(i) = 0)
          /\ CountSprings(IsHStruct) = (w - 1) * h
          /\ CountSprings(IsHBend) = (w - 2) * h
          /\ CountSprings(IsVStruct) = w * (h - 1)
          /\ CountSprings(IsVBend) = w * (h - 2)
          /\ CountSprings(IsShear) = 2 * (w - 1) * (h - 1)
          /\ n = (w - 1) * h + (w - 2) * h + w * (h - 1) + w * (h - 2)
                 + 2 * (w - 1) * (h - 1)
          /\ \A k \in 1 .. n :
                /\ cloth.springs[k].p1_idx \in DOMAIN cloth.particles
                /\ cloth.springs[k].p2_idx \in DOMAIN cloth.particles
                /\ cloth.springs[k].p1_idx # cloth.springs[k].p2_idx
          /\ \A k, l \in 1 .. n :
                k # l => {cloth.springs[k].p1_idx, cloth.springs[k].p2_idx}
                         # {cloth.springs[l].p1_idx, cloth.springs[l].p2_idx}

\* The builder has produced the smallest grid that has a bending spring
\* in one direction and none in the other.
C2_Witness ==
    /\ pc = "topo"
    /\ cloth.width = 2 /\ cloth.height = 3
    /\ Len(cloth.springs) = 13
    /\ cloth_spacing = FromInt(10)

\* C3 -- Removal is permanent: every step that does not replace the whole
\* cloth leaves a spring list that holds only springs that were in it before
\* the step, so a spring once torn or cut stays absent wherever its ends move.
C3_RemovalPermanent ==
    [][~ClothReplaced => Range(cloth'.springs) \subseteq Range(cloth.springs)]_vars

\* The second frame ends with a spring of the dragged particle torn in it and
\* its ends since pulled back under the tear distance.  (Nothing else took it:
\* the cut button is up, and in the first frame the cursor was over the
\* window, where the threshold was moved, out of the cut radius' reach.)
C3_Witness ==
    /\ pc = "draw" /\ frame = 2
    /\ tear_threshold = Two /\ cut_radius = FromInt(10)
    /\ ~rmb_down /\ ~is_mouse_over(mouse_pos)
    /\ selected_particle_idx # None
    /\ \E s \in Range(BuiltSprings) \ Range(cloth.springs) :
          /\ selected_particle_idx[1] \in {s.p1_idx, s.p2_idx}
          /\ UnderTearDistance(s)

\* The distance the cut pass measures, and the disc being clear after it.
SegmentDistance(s) ==
    distance_point_to_segment(mouse_pos, cloth.particles[s.p1_idx].pos,
                              cloth.particles[s.p2_idx].pos)

DiscClear ==
    (pc = "force" /\ rmb_down) =>
        \A s \in Range(cloth.springs) : ~F32Less(SegmentDistance(s), cut_radius)

\* C4 -- Cutting clears the disc: right after a cut pass with the cut button
\* held no live spring's segment is closer to the cursor than cut_radius (a
\* zero-length segment measured to its endpoint); with the button up the cut
\* step changes nothing.
C4_CutClearsDisc ==
    /\ []DiscClear
    /\ [][(pc = "cut" /\ ~rmb_down) => cloth' = cloth]_vars

\* The first frame's cut pass has removed springs and left others.
C4_Witness ==
    /\ pc = "force" /\ rmb_down /\ frame = 1
    /\ Len(cloth.springs) < Len(BuiltSprings)
    /\ Len(cloth.springs) > 0


\* The three transitions of the selection.
DistSqToMouse(i) == LET to_mouse == Sub(cloth.particles[i].pos, mouse_pos) IN length_squared(to_mouse)

SelectedFromIdle ==
    (selected_particle_idx = None /\ selected_particle_idx' # None) =>
        /\ pc = "press"
        /\ lmb_pressed
        /\ ~is_mouse_over(mouse_pos)
        /\ selected_particle_idx'[1] \in DOMAIN cloth.particles
        /\ \A j \in DOMAIN cloth.particles :
              ~F32Less(DistSqToMouse(j), DistSqToMouse(selected_particle_idx'[1]))
        /\ F32Less(DistSqToMouse(selected_particle_idx'[1]), PickThreshold)

DragMoves ==
    (pc = "drag" /\ lmb_down /\ selected_particle_idx # None) =>
        /\ cloth'.particles[selected_particle_idx[1]].pos = mouse_pos
        /\ cloth'.particles[selected_particle_idx[1]].old_pos
              = cloth.particles[selected_particle_idx[1]].pos
        /\ selected_particle_idx' = selected_particle_idx

IdleAfterRelease ==
    (lmb_released /\ pc \in {"cut", "force", "integrate", "tear", "correct", "draw"})
        => selected_particle_idx = None

\* C5 -- Interaction state machine: the selection goes from None to Some(i)
\* only in the press step of a frame whose press is not over the window, with
\* i a particle of least squared distance to the cursor and that distance
\* under the pick threshold; the drag step of a frame with the button down
\* puts the selected particle at the cursor and its old_pos at the position
\* it had; after the release step of a frame that reports a release the
\* selection is None for the rest of the frame.
C5_InteractionMachine ==
    /\ [][SelectedFromIdle /\ DragMoves]_vars
    /\ []IdleAfterRelease

\* The drag step has just put a particle picked in this frame at the cursor,
\* away from where it was.
C5_Witness ==
    /\ pc = "release"
    /\ lmb_pressed /\ lmb_down
    /\ selected_particle_idx # None
    /\ cloth.particles[selected_particle_idx[1]].pos = mouse_pos
    /\ cloth.particles[selected_particle_idx[1]].old_pos # mouse_pos

\* The order a frame's mutations of the store come in, as ranks: a list of
\* operations is in order when ranks never decrease.
InOrder(ops, Rank(_)) ==
    \A i, j \in 1 .. Len(ops) : i < j => Rank(ops[i]) <= Rank(ops[j])

\* The order as claimed: force, integration, tear / relax, cut, drag, render.
ClaimedRank(op) ==
    CASE op = "rebuild"   -> 0
      [] op = "force"     -> 1
      [] op = "integrate" -> 2
      [] op = "tear"      -> 3
      [] op = "correct"   -> 3
      [] op = "cut"       -> 4
      [] op = "drag"      -> 5
      [] op = "draw"      -> 6

\* The order of the code: drag, cut, force, integration, tear / relax, render.
CodeRank(op) ==
    CASE op = "rebuild"   -> 0
      [] op = "drag"      -> 1
      [] op = "cut"       -> 2
      [] op = "force"     -> 3
      [] op = "integrate" -> 4
      [] op = "tear"      -> 5
      [] op = "correct"   -> 5
      [] op = "draw"      -> 6

\* C6 as claimed: in every frame the store is mutated in the order force,
\* integration, tear / relax iterations, cut, drag, and rendered after them.
C6_ClaimedOrder == InOrder(frame_ops, ClaimedRank)

\* C6 as amended: in every frame the store is mutated in the order drag, cut,
\* force, integration, tear / relax iterations, and rendered after them; force,
\* integration and rendering happen in every frame.
C6_CodeOrder ==
    /\ InOrder(frame_ops, CodeRank)
    /\ (pc = "begin" /\ frame > 0) =>
          /\ {"force", "integrate", "draw"} \subseteq Range(frame_ops)
          /\ frame_ops[Len(frame_ops)] = "draw"

\* A frame is over in which the drag, the cut and the relaxation all ran.
C6_Witness ==
    /\ pc = "begin" /\ frame > 0
    /\ {"drag", "cut", "force", "integrate", "tear", "correct", "draw"}
          \subseteq Range(frame_ops)

\* C7 -- Rebuild on resize: at every simulation step the live cloth's width and
\* height are the configured ones (the sliders' values truncated).
C7_SizeMatchesConfig ==
    pc \in {"force", "integrate", "tear", "correct"} =>
        /\ cloth.width = AsUsize(cloth_width)
        /\ cloth.height = AsUsize(cloth_height)

\* The parts of an iteration: what holds when its correction pass starts, and
\* what its passes change.
AllUnderThreshold ==
    pc = "correct" =>
        \A s \in Range(cloth.springs) : UnderTearDistance(s)

ZeroLengthUncorrected ==
    pc = "correct" =>
        \A s \in Range(cloth.springs) :
            SpringLength(s) = Zero => CorrectSpring(cloth.particles, s, stiffness) = cloth.particles

IterationsAlternate ==
    pc = "draw" =>
        LET relax == SelectSeq(frame_ops, LAMBDA op : op \in {"tear", "correct"})
        IN  /\ Len(relax) = 2 * AsUsize(iterations)
            /\ \A k \in 1 .. Len(relax) :
                  relax[k] = IF k % 2 = 1 THEN "tear" ELSE "correct"

OnlyLiveSpringsCorrect ==
    pc = "correct" =>
        \A i \in DOMAIN cloth.particles :
            cloth'.particles[i] # cloth.particles[i] =>
                /\ ~cloth.particles[i].is_pinned
                /\ \E s \in Range(cloth.springs) : i \in {s.p1_idx, s.p2_idx}

ZeroLengthKept ==
    pc = "tear" =>
        \A s \in Range(cloth.springs) : SpringLength(s) = Zero => s \in Range(cloth'.springs)

\* C8 -- Tear before correct: when an iteration's correction pass starts, the
\* tear pass has just removed every spring at or over rest_length *
\* tear_threshold; the correction pass moves only unpinned ends of live
\* springs; the tear pass keeps a zero-length spring and the correction of a
\* zero-length spring moves nothing; a frame runs `iterations as usize`
\* iterations, each a tear pass followed by a correction pass.
C8_TearBeforeCorrect ==
    /\ [](AllUnderThreshold /\ ZeroLengthUncorrected /\ IterationsAlternate)
    /\ [][OnlyLiveSpringsCorrect /\ ZeroLengthKept]_vars

\* A tear pass of the second iteration has just run, and a spring of the cloth
\* that is over the tear distance is gone, with other springs left to correct.
C8_Witness ==
    /\ pc = "correct" /\ iter = 1
    /\ Len(cloth.springs) > 0
    /\ \E s \in Range(BuiltSprings) \ Range(cloth.springs) :
          ~UnderTearDistance(s)

\* C9 -- Force accumulator: after the integration step of a frame the
\* acceleration of every particle, pinned ones included, is zero.
C9_AccumulatorReset ==
    pc \in {"tear", "correct", "draw"} =>
        \A i \in DOMAIN cloth.particles : cloth.particles[i].acceleration = ZERO

\* C10 -- Selection is never stale: a selection Some(idx) always has idx below
\* the number of particles of the live cloth, so the drag step's defensive
\* branch never finds an index to drop.
C10_SelectionValid ==
    selected_particle_idx # None =>
        /\ selected_particle_idx[1] >= 0
        /\ selected_particle_idx[1] < NumParticles(cloth)

\* The size check is about to rebuild a smaller cloth than the one the
\* selected particle's index comes from, while the button is held.
C10_Witness ==
    /\ pc = "resize" /\ SizeChanged
    /\ lmb_down
    /\ selected_particle_idx # None
    /\ selected_particle_idx[1] >= AsUsize(cloth_width) * AsUsize(cloth_height)

====
